---------------------------- MODULE Spec2Model ----------------------------
(***************************************************************************)
(* optimesh: the iteration runner (helpers.runner), the averaging          *)
(* aggregator (helpers.get_new_points_averaged), the two ODT fixed-point   *)
(* rules and the BFGS driver (odt.py), as one state machine.               *)
(*                                                                         *)
(* Numbers.  Coordinates are exact integers on a grid whose unit U is      *)
(* divisible by every weight sum the model can form, so the division of    *)
(* the averaging aggregator is exact.  A 2-D vector is <<x, y>>; the row   *)
(* numpy produces for 0/0 is NaN == << >>.  The clamp's square root is the *)
(* exact integer root; the runs followed are those whose clamped           *)
(* displacements have an integer length (Representable).  Floating-point   *)
(* rounding is not modelled.                                               *)
(*                                                                         *)
(* The mesh object is meshplex's MeshTri: its connectivity-derived         *)
(* attributes are computed from the cells, its geometry-derived arrays     *)
(* (circumcenters, barycenters, volumes, inradii) are values the           *)
(* collaborator hands back, drawn from Geoms whenever it recomputes them.  *)
(* In the BFGS driver, whose energy compares the stored cell volumes with   *)
(* the triangles of the current points, the stored volumes are the areas    *)
(* of the triangles for the points of the last recomputation.               *)
(***************************************************************************)
EXTENDS Integers, Sequences, FiniteSets, TLC

VARIABLES
    driver,       \* "runner" (helpers.runner) or "bfgs" (nonlinear_optimization_uniform)
    arg,          \* the call's arguments, constant during a run
    n,            \* mesh.points.shape[0]
    points,       \* mesh.points: [0..n-1 -> vector]
    cells,        \* mesh.cells["points"]: sequence of index triples
    geom,         \* the mesh's stored derived arrays: cc, bc, vol, inr (per cell)
    pc,           \* position in the driver
    k,            \* runner's k / flip_delaunay.step
    X,            \* new_points of the current iteration (runner) / the solver's x (bfgs)
    diff,         \* the post-clamp displacement of the current iteration
    is_final,     \* runner's is_final
    dirty,        \* points changed since the last update_values()
    stale_read,   \* a derived quantity has been read while dirty
    delaunay,     \* flip_until_delaunay() has run since the last change of points
    points0,      \* history: points at the start of the run
    prev_points,  \* history: points before the current iteration's step
    raw,          \* history: the averaged positions before the boundary policy
    events,       \* history: mesh operations of the current phase, in order
    cb_log,       \* history: the step numbers the user callback received
    op            \* history: the operation performed last

vars == <<driver, arg, n, points, cells, geom, pc, k, X, diff, is_final, dirty,
          stale_read, delaunay, points0, prev_points, raw, events, cb_log, op>>

---------------------------------------------------------------------------
(* Bounds and program constants *)

\* cap on the iteration counter, for runs the arguments do not bound
MaxK == 3

\* math.inf / numpy.inf
Inf == 1000000

\* the default of runner's implicit_surface_tol (1.0e-10), below the grid's resolution
implicit_surface_tol == 0

\* grid unit: divisible by every weight sum 1..8 the model can form
U == 3 * 5 * 7 * 8

\* a positive tolerance between the small and the large displacements of the model
TolPos == U \div 8

---------------------------------------------------------------------------
(* Vectors *)

NaN == << >>

IsNaN(v) == Len(v) = 0

VAdd(a, b) == IF IsNaN(a) \/ IsNaN(b) THEN NaN ELSE <<a[1] + b[1], a[2] + b[2]>>

VSub(a, b) == IF IsNaN(a) \/ IsNaN(b) THEN NaN ELSE <<a[1] - b[1], a[2] - b[2]>>

VScale(s, a) == IF IsNaN(a) THEN NaN ELSE <<s * a[1], s * a[2]>>

\* numpy.einsum("ij,ij->i", d, d) for one row; only used on rows that are not NaN
Dot(a, b) == a[1] * b[1] + a[2] * b[2]

RECURSIVE SqrtIter(_, _)
SqrtIter(m, x) ==
    LET y == (x + m \div x) \div 2
    IN  IF y >= x THEN x ELSE SqrtIter(m, y)

\* numpy.sqrt on the grid: the integer root (exact on the squares)
ISqrt(m) == IF m = 0 THEN 0 ELSE SqrtIter(m, m)

Abs(a) == IF a < 0 THEN -a ELSE a

Min(S) == CHOOSE a \in S : \A b \in S : a <= b

Pts(np) == 0 .. (np - 1)

---------------------------------------------------------------------------
(* The mesh collaborator: connectivity-derived attributes *)

(* Two triangulations of the same five points: a square 0,1,2,3 with the    *)
(* interior point 4.  A flip of the interior edge 3-4 / 0-2 maps one to the *)
(* other; the boundary edges are the same in both.                          *)
StarCells == << <<0, 1, 4>>, <<1, 2, 4>>, <<2, 3, 4>>, <<3, 0, 4>> >>

FanCells == << <<0, 1, 4>>, <<1, 2, 4>>, <<2, 0, 4>>, <<0, 2, 3>> >>

Configs == {StarCells, FanCells}

CellEdges(c) == {{c[1], c[2]}, {c[2], c[3]}, {c[3], c[1]}}

CellsOfEdge(cs, e) == {i \in DOMAIN cs : e \in CellEdges(cs[i])}

AllEdges(cs) == UNION {CellEdges(cs[i]) : i \in DOMAIN cs}

\* edges with one adjacent cell
BoundaryEdges(cs) == {e \in AllEdges(cs) : Cardinality(CellsOfEdge(cs, e)) = 1}

\* the attributes below, computed once per triangulation
Connectivity ==
    [cs \in Configs |->
        [boundary_points |-> UNION BoundaryEdges(cs),
         interior_points |-> (UNION AllEdges(cs)) \ (UNION BoundaryEdges(cs)),
         boundary_cells  |-> {i \in DOMAIN cs : CellEdges(cs[i]) \cap BoundaryEdges(cs) # {}},
         cells_of_point  |-> [p \in 0..5 |-> {i \in DOMAIN cs : \E s \in 1..3 : cs[i][s] = p}],
         slots           |-> [p \in 0..5 |-> {e \in (DOMAIN cs) \X (1..3) : cs[e[1]][e[2]] = p}]]]

\* mesh.is_boundary_point, as the set of its true indices
is_boundary_point(cs) == Connectivity[cs].boundary_points

\* mesh.is_interior_point, as the set of its true indices
is_interior_point(cs) == Connectivity[cs].interior_points

\* mesh.edges_cells[1][:, 0]: the cells that own a boundary edge
boundary_cell_ids(cs) == Connectivity[cs].boundary_cells

\* the cells incident to point p
CellsOfPoint(cs, p) == Connectivity[cs].cells_of_point[p]

(* The geometry-derived arrays the collaborator can hand back.              *)
GeomRegular ==
    [cc  |-> << <<3*U, 0>>, <<6*U, 3*U>>, <<3*U, 5*U>>, <<0, 3*U>> >>,
     bc  |-> << <<3*U, U>>, <<5*U, 3*U>>, <<3*U, 5*U>>, <<U, 3*U>> >>,
     vol |-> <<2, 2, 2, 2>>,
     inr |-> <<40*U, 40*U, 40*U, 40*U>>]

GeomSkew ==
    [cc  |-> << <<3*U, 0>>, <<6*U, 3*U>>, <<5*U, 5*U>>, <<0, 3*U>> >>,
     bc  |-> << <<3*U, U>>, <<7*U, 3*U>>, <<3*U, 5*U>>, <<U, 3*U>> >>,
     vol |-> <<1, 2, 1, 2>>,
     inr |-> <<U, U, 2*U, U>>]

Geoms == {GeomRegular, GeomSkew}

InitPoints(np) ==
    [p \in Pts(np) |->
        CASE p = 0 -> <<0, 0>>
          [] p = 1 -> <<6*U, 0>>
          [] p = 2 -> <<6*U, 6*U>>
          [] p = 3 -> <<0, 6*U>>
          [] p = 4 -> <<3*U, 3*U>>
          [] OTHER -> <<12*U, 12*U>>]


---------------------------------------------------------------------------
(* helpers.get_new_points_averaged *)

\* None, for an argument that is a name
None == "None"

\* weights=None, for the argument that is an array
NoWeights == << >>

RECURSIVE SumInt(_)
SumInt(f) ==
    IF DOMAIN f = {} THEN 0
    ELSE LET e == CHOOSE d \in DOMAIN f : TRUE
         IN  f[e] + SumInt([d \in (DOMAIN f) \ {e} |-> f[d]])

\* the (cell, vertex slot) pairs that hold point p: what bincount adds up for p
Slots(cs, p) == Connectivity[cs].slots[p]

\* scaled_rp: reference_points.T (* weights)
scaled_rp(reference_points, weights, c) ==
    IF weights = NoWeights THEN reference_points[c]
    ELSE VScale(weights[c], reference_points[c])

\* the accumulated numerator row of point p (the bincount loop)
SumRow(cs, reference_points, weights, p) ==
    LET S == Slots(cs, p)
    IN  <<SumInt([e \in S |-> scaled_rp(reference_points, weights, e[1])[1]]),
          SumInt([e \in S |-> scaled_rp(reference_points, weights, e[1])[2]])>>

\* omega as the number of incident slots, whatever the weights
WeightSumCount(cs, weights, p) == Cardinality(Slots(cs, p))

\* omega: the per-point weight sum
WeightSum(cs, weights, p) ==
    IF weights = NoWeights THEN Cardinality(Slots(cs, p))
    ELSE SumInt([e \in Slots(cs, p) |-> weights[e[1]]])

\* new_points /= omega[:, None]: numpy gives the row NaN for 0/0 and goes on
DivRow(num, w) == IF w = 0 THEN NaN ELSE <<num[1] \div w, num[2] \div w>>

get_new_points_averaged(np, cs, reference_points, weights) ==
    [p \in Pts(np) |->
        DivRow(SumRow(cs, reference_points, weights, p), WeightSum(cs, weights, p))]

---------------------------------------------------------------------------
(* odt.fixed_point_uniform / odt.fixed_point_density_preserving *)

\* a caller-supplied boundary_step: the projection onto the two horizontal
\* boundary lines y = 0 and y = 6U of the square
boundary_step(v) ==
    IF IsNaN(v) THEN NaN ELSE <<v[1], IF v[2] < 3*U THEN 0 ELSE 6*U>>

\* uniform: cc = mesh.cell_circumcenters; cc[boundary_cell_ids] = bc[boundary_cell_ids]
\* (cc is the mesh's own array, so this is also what the mesh stores afterwards)
UniformCC(cs, g) ==
    [c \in DOMAIN cs |-> IF c \in boundary_cell_ids(cs) THEN g.bc[c] ELSE g.cc[c]]

\* density-preserving: numpy.sum(mesh.is_boundary_point[mesh.cells["points"]], axis=1) == 2
is_boundary_cell(cs, c) ==
    Cardinality({s \in 1..3 : cs[c][s] \in is_boundary_point(cs)}) = 2

\* density-preserving: cc = mesh.cell_circumcenters.copy(); cc[is_boundary_cell] = bc[...]
DensityCC(cs, g) ==
    [c \in DOMAIN cs |-> IF is_boundary_cell(cs, c) THEN g.bc[c] ELSE g.cc[c]]

\* X = get_new_points_averaged(mesh, cc, mesh.cell_volumes) / (mesh, cc)
AveragedRule(rule, np, cs, g) ==
    IF rule = "odt_uniform"
    THEN get_new_points_averaged(np, cs, UniformCC(cs, g), g.vol)
    ELSE get_new_points_averaged(np, cs, DensityCC(cs, g), NoWeights)

\* the same, computed once per rule, mesh size, triangulation and geometry
AveragedTable ==
    [rule \in {"odt_uniform", "odt_dp"}, np \in {5, 6}, cs \in Configs, g \in Geoms |->
        LET A == AveragedRule(rule, np, cs, g) IN [p \in Pts(np) |-> A[p]]]

AveragedODT(rule, np, cs, g) == AveragedTable[rule, np, cs, g]

\* the rule without its boundary policy
BoundaryPolicyOff(bstep, Xavg, pts, cs) == Xavg

\* the boundary policy: reset the boundary rows, or remap them by boundary_step
BoundaryPolicy(bstep, Xavg, pts, cs) ==
    [p \in DOMAIN Xavg |->
        IF p \in is_boundary_point(cs)
        THEN (IF bstep = None THEN pts[p] ELSE boundary_step(Xavg[p]))
        ELSE Xavg[p]]

\* get_new_points(mesh) of the two ODT rules
NewPointsODT(rule, bstep, np, pts, cs, g) ==
    BoundaryPolicy(bstep, AveragedODT(rule, np, cs, g), pts, cs)

\* the mesh's stored arrays after get_new_points(mesh)
GeomAfterRule(rule, cs, g) ==
    IF rule = "odt_uniform" THEN [g EXCEPT !.cc = UniformCC(cs, g)] ELSE g

---------------------------------------------------------------------------
(* helpers.runner: the step *)

\* max_step: numpy.minimum.at over the incident cells' inradii, times 0.5
max_step(cs, g, p) ==
    IF CellsOfPoint(cs, p) = {} THEN Inf
    ELSE Min({g.inr[c] : c \in CellsOfPoint(cs, p)}) \div 2

\* idx = step_lengths > max_step (false for a NaN row)
Exceeds(d, m) == ~IsNaN(d) /\ m # Inf /\ Dot(d, d) > m * m

\* the step without the rescaling of the rows in idx
ClampOff(d, m) == d

\* diff[idx] *= max_step[idx, None] / step_lengths[idx, None]
Clamp(d, m) ==
    IF Exceeds(d, m)
    THEN LET L == ISqrt(Dot(d, d)) IN <<(d[1] * m) \div L, (d[2] * m) \div L>>
    ELSE d

\* the rescaled row is on the grid
Representable(d, m) ==
    Exceeds(d, m) =>
        LET L == ISqrt(Dot(d, d))
        IN  L * L = Dot(d, d) /\ (d[1] * m) % L = 0 /\ (d[2] * m) % L = 0

\* diff = omega * (new_points - mesh.points), clamped
StepDiff(omega, Xn, pts, cs, g) ==
    [p \in DOMAIN pts |->
        Clamp(VScale(omega, VSub(Xn[p], pts[p])), max_step(cs, g, p))]

StepOK(omega, Xn, pts, cs, g) ==
    \A p \in DOMAIN pts :
        Representable(VScale(omega, VSub(Xn[p], pts[p])), max_step(cs, g, p))

\* numpy.all(diff_norm_2 < tol ** 2)
AllSmall(df, tol) ==
    \A p \in DOMAIN df : ~IsNaN(df[p]) /\ Dot(df[p], df[p]) < tol * tol

\* is_final with the two conditions joined by "and"
IsFinalAnd(df, tol, kk, max_num_steps) == AllSmall(df, tol) /\ kk >= max_num_steps

\* is_final
IsFinal(df, tol, kk, max_num_steps) == AllSmall(df, tol) \/ kk >= max_num_steps

\* implicit_surface.f.  "line": f(x, y) = y - 3U, whose zero set is the line y = 3U.
\* "vee": f(x, y) = |y - 3U| + U, which has no zero.
ImplicitF(v) ==
    IF arg.implicit_surface = "vee" THEN Abs(v[2] - 3*U) + U ELSE v[2] - 3*U

\* implicit_surface.grad
ImplicitGrad(v) ==
    IF arg.implicit_surface = "vee" /\ v[2] < 3*U THEN <<0, -1>> ELSE <<0, 1>>

\* numpy.any(numpy.abs(fval) > implicit_surface_tol)
OffSurface(pts) ==
    \E p \in DOMAIN pts : ~IsNaN(pts[p]) /\ Abs(ImplicitF(pts[p])) > implicit_surface_tol

\* mesh.points -= (grad * (fval / grad_dot_grad)).T
NewtonStep(pts) ==
    [p \in DOMAIN pts |->
        IF IsNaN(pts[p]) THEN NaN
        ELSE LET grad == ImplicitGrad(pts[p])
                 fval == ImplicitF(pts[p])
             IN  VSub(pts[p], VScale(fval \div Dot(grad, grad), grad))]

\* candidate displacement fields of a rule passed to runner by a caller
Fields(np) ==
    { [p \in Pts(np) |-> <<0, 0>>],
      [p \in Pts(np) |-> IF p = 4 THEN <<36, 48>> ELSE <<0, 0>>],
      [p \in Pts(np) |-> IF p = 4 THEN <<3*U, 4*U>> ELSE <<U, 0>>] }


---------------------------------------------------------------------------
(* odt.energy, and the cell volumes it reads *)

(* In the BFGS driver every coordinate is a multiple of U; the energy is      *)
(* computed on the coordinates in units of U, and a cell volume is kept as    *)
(* twice the triangle's area in units of U * U.                               *)
InUnits(v) == <<v[1] \div U, v[2] \div U>>

\* the three vertices of cell c, in units
Corners(pts, cs, c) == [s \in 1..3 |-> InUnits(pts[cs[c][s]])]

\* twice the area of the triangle of cell c
Area2(pts, cs, c) ==
    LET T == Corners(pts, cs, c)
        a == VSub(T[2], T[1])
        b == VSub(T[3], T[1])
    IN  Abs(a[1] * b[2] - a[2] * b[1])

\* mesh.cell_volumes as the collaborator computes it from the points it is given
cell_volumes(pts, cs) == [c \in DOMAIN cs |-> Area2(pts, cs, c)]

\* the stored arrays the collaborator computes for pts: in the BFGS driver the
\* volumes are the triangles' areas; the fixed-point rules take the arrays as drawn
StoredGeom(g, pts, cs) ==
    IF driver = "bfgs" THEN [g EXCEPT !.vol = cell_volumes(pts, cs)] ELSE g

\* sum over the vertices of cell c of x2 = einsum("ij,ij->i", mesh.points, mesh.points)
VertexNorms(pts, cs, c) ==
    LET T == Corners(pts, cs, c) IN Dot(T[1], T[1]) + Dot(T[2], T[2]) + Dot(T[3], T[3])

\* 24 / (twice the area) times the degree-2 quadrature of x[0]**2 + x[1]**2 over the
\* triangle of cell c, which is exact: the integral is area / 12 * (Q + |a+b+c|^2)
QuadratureTerm(pts, cs, c) ==
    LET T == Corners(pts, cs, c)
        sum == VAdd(VAdd(T[1], T[2]), T[3])
    IN  VertexNorms(pts, cs, c) + Dot(sum, sum)

\* the product of the stored volumes of all cells but c
OtherVolumes(cs, vol, c) ==
    LET others == [d \in (DOMAIN cs) \ {c} |-> vol[d]]
        RECURSIVE Prod(_)
        Prod(f) == IF DOMAIN f = {} THEN 1
                   ELSE LET e == CHOOSE d \in DOMAIN f : TRUE
                        IN  f[e] * Prod([d \in (DOMAIN f) \ {e} |-> f[d]])
    IN  Prod(others)

\* energy(mesh, uniform_density): whether its `assert out >= val` passes, for the
\* points pts and the stored cell volumes vol (twice the areas).
\* uniform:     24 out = 4 sum_c vol[c] Q[c],   24 val = sum_c Area2[c] (Q[c] + S[c])
\* non-uniform: 24 out = 8 sum_c Q[c],          24 val = 2 sum_c Area2[c] (Q[c] + S[c]) / vol[c]
\* (1.0 / 0 is inf, and val is then inf or NaN: the assertion fails)
energy_assert(pts, cs, vol, uniform_density) ==
    IF uniform_density
    THEN 4 * SumInt([c \in DOMAIN cs |-> vol[c] * VertexNorms(pts, cs, c)])
            >= SumInt([c \in DOMAIN cs |-> Area2(pts, cs, c) * QuadratureTerm(pts, cs, c)])
    ELSE /\ \A c \in DOMAIN cs : vol[c] # 0
         /\ 4 * SumInt([c \in DOMAIN cs |-> vol[c] * OtherVolumes(cs, vol, c)
                                               * VertexNorms(pts, cs, c)])
               >= SumInt([c \in DOMAIN cs |-> Area2(pts, cs, c) * QuadratureTerm(pts, cs, c)
                                                 * OtherVolumes(cs, vol, c)])

---------------------------------------------------------------------------
(* State-changing primitives shared by the two drivers *)

Changed(newpts) == newpts # points

\* a write to mesh.points
WritePoints(newpts) ==
    /\ points' = newpts
    /\ dirty' = (dirty \/ Changed(newpts))
    /\ delaunay' = (delaunay /\ ~Changed(newpts))

\* the geometry the collaborator may hand back for these points and cells: for
\* the ODT rules, one whose next step stays on the grid
GeomOK(pts, cs, g) ==
    IF driver = "bfgs" THEN TRUE
    ELSE IF arg.rule = "generic" THEN TRUE
    ELSE StepOK(arg.omega,
                NewPointsODT(arg.rule, arg.boundary_step, n, pts, cs, g), pts, cs, g)

\* mesh.update_values()
update_values ==
    /\ \E g \in Geoms :
          /\ IF delaunay THEN GeomOK(points, cells, g)
                         ELSE \E cs \in Configs : GeomOK(points, cs, g)
          /\ geom' = StoredGeom(g, points, cells)
    /\ dirty' = FALSE

\* mesh.flip_until_delaunay(): nothing to flip on a Delaunay mesh; otherwise the
\* cells change (the per-cell arrays then belong to the new cells), the points do not
flip_until_delaunay ==
    /\ IF delaunay
       THEN UNCHANGED <<cells, geom>>
       ELSE /\ \E cs \in Configs : GeomOK(points, cs, geom) /\ cells' = cs
            /\ geom' = StoredGeom(geom, points, cells')
    /\ delaunay' = TRUE

Log(e) == events' = Append(events, e)

---------------------------------------------------------------------------
(* helpers.runner *)

RunnerArgs ==
    {a \in [rule : {"generic", "odt_uniform", "odt_dp"},
            boundary_step : {None, "edges"},
            omega : {1, 2},
            tol : {0, TolPos},
            max_num_steps : {0, 1, 2, Inf},
            implicit_surface : {None, "line", "vee"},
            callback : BOOLEAN,
            step_filename_format : BOOLEAN] :
        a.rule = "generic" => a.boundary_step = None}

ZeroField(np) == [p \in Pts(np) |-> <<0, 0>>]

\* lines 79-90: k = 0; the optional snapshot of step 0
RunnerSave0 ==
    /\ pc = "r_save0"
    /\ pc' = "r_callback0"
    /\ IF arg.step_filename_format THEN Log("save") ELSE UNCHANGED events
    /\ op' = "save"
    /\ UNCHANGED <<driver, arg, n, points, cells, geom, k, X, diff, is_final, dirty,
                   stale_read, delaunay, points0, prev_points, raw, cb_log>>

\* lines 92-93: the optional callback of step 0
RunnerCallback0 ==
    /\ pc = "r_callback0"
    /\ pc' = "r_flip0"
    /\ IF arg.callback
       THEN cb_log' = Append(cb_log, k) /\ Log("callback")
       ELSE UNCHANGED <<cb_log, events>>
    /\ op' = "callback"
    /\ UNCHANGED <<driver, arg, n, points, cells, geom, k, X, diff, is_final, dirty,
                   stale_read, delaunay, points0, prev_points, raw>>

\* line 96: the initial mesh.flip_until_delaunay()
RunnerFlip0 ==
    /\ pc = "r_flip0"
    /\ pc' = "r_rule"
    /\ flip_until_delaunay
    /\ Log("flip_until_delaunay")
    /\ op' = "flip_until_delaunay"
    /\ UNCHANGED <<driver, arg, n, points, k, X, diff, is_final, dirty,
                   stale_read, points0, prev_points, raw, cb_log>>

\* lines 100-102: k += 1; new_points = get_new_points(mesh)
GetNewPoints ==
    /\ pc = "r_rule"
    /\ k < MaxK
    /\ pc' = "r_step"
    /\ k' = k + 1
    /\ IF arg.rule = "generic"
       THEN /\ \E F \in Fields(n) :
                LET Xn == [p \in Pts(n) |-> VAdd(points[p], F[p])]
                IN  StepOK(arg.omega, Xn, points, cells, geom) /\ X' = Xn /\ raw' = Xn
            /\ geom' = geom
       ELSE /\ X' = NewPointsODT(arg.rule, arg.boundary_step, n, points, cells, geom)
            /\ raw' = AveragedODT(arg.rule, n, cells, geom)
            /\ geom' = GeomAfterRule(arg.rule, cells, geom)
    /\ stale_read' = (stale_read \/ dirty)
    /\ events' = <<"get_new_points">>
    /\ op' = "get_new_points"
    /\ UNCHANGED <<driver, arg, n, points, cells, diff, is_final, dirty,
                   delaunay, points0, prev_points, cb_log>>

\* lines 103-127: diff, max_step, the clamp, mesh.points += diff
ApplyStep ==
    /\ pc = "r_step"
    /\ pc' = "r_project"
    /\ diff' = StepDiff(arg.omega, X, points, cells, geom)
    /\ WritePoints([p \in Pts(n) |-> VAdd(points[p], diff'[p])])
    /\ prev_points' = points
    /\ stale_read' = (stale_read \/ dirty)
    /\ Log("step")
    /\ op' = "step"
    /\ UNCHANGED <<driver, arg, n, cells, geom, k, X, is_final, points0, raw, cb_log>>

\* lines 130-140: one pass of the projection loop's body
ProjectNewton ==
    /\ pc = "r_project"
    /\ arg.implicit_surface # None
    /\ OffSurface(points)
    /\ WritePoints(NewtonStep(points))
    /\ op' = "project"
    /\ UNCHANGED <<driver, arg, n, cells, geom, pc, k, X, diff, is_final, stale_read,
                   points0, prev_points, raw, events, cb_log>>

\* lines 130-132: no implicit surface, or the residual is within the tolerance
ProjectEnd ==
    /\ pc = "r_project"
    /\ arg.implicit_surface = None \/ ~OffSurface(points)
    /\ pc' = "r_update"
    /\ op' = "project_end"
    /\ UNCHANGED <<driver, arg, n, points, cells, geom, k, X, diff, is_final, dirty,
                   stale_read, delaunay, points0, prev_points, raw, events, cb_log>>

\* line 142: mesh.update_values()
RelaxUpdateValues ==
    /\ pc = "r_update"
    /\ pc' = "r_flip"
    /\ update_values
    /\ Log("update_values")
    /\ op' = "update_values"
    /\ UNCHANGED <<driver, arg, n, points, cells, k, X, diff, is_final,
                   stale_read, delaunay, points0, prev_points, raw, cb_log>>

\* the iteration without its re-triangulation
RelaxFlipSkipped ==
    /\ pc = "r_flip"
    /\ pc' = "r_check"
    /\ op' = "flip_until_delaunay"
    /\ UNCHANGED <<driver, arg, n, points, cells, geom, k, X, diff, is_final, dirty,
                   stale_read, delaunay, points0, prev_points, raw, events, cb_log>>

\* line 143: mesh.flip_until_delaunay()
RelaxFlip ==
    /\ pc = "r_flip"
    /\ pc' = "r_check"
    /\ flip_until_delaunay
    /\ Log("flip_until_delaunay")
    /\ op' = "flip_until_delaunay"
    /\ UNCHANGED <<driver, arg, n, points, k, X, diff, is_final, dirty,
                   stale_read, points0, prev_points, raw, cb_log>>

\* lines 147-168: is_final, and the optional snapshot of step k
CheckFinal ==
    /\ pc = "r_check"
    /\ pc' = "r_callback"
    /\ is_final' = IsFinal(diff, arg.tol, k, arg.max_num_steps)
    /\ IF arg.step_filename_format THEN Log("save") ELSE UNCHANGED events
    /\ op' = "check"
    /\ UNCHANGED <<driver, arg, n, points, cells, geom, k, X, diff, dirty,
                   stale_read, delaunay, points0, prev_points, raw, cb_log>>

\* lines 169-175: the optional callback of step k; break and return when final
RelaxCallback ==
    /\ pc = "r_callback"
    /\ pc' = IF is_final THEN "done" ELSE "r_rule"
    /\ IF arg.callback
       THEN cb_log' = Append(cb_log, k) /\ Log("callback")
       ELSE UNCHANGED <<cb_log, events>>
    /\ op' = "callback"
    /\ UNCHANGED <<driver, arg, n, points, cells, geom, k, X, diff, is_final, dirty,
                   stale_read, delaunay, points0, prev_points, raw>>

RunnerNext ==
    \/ RunnerSave0
    \/ RunnerCallback0
    \/ RunnerFlip0
    \/ GetNewPoints
    \/ ApplyStep
    \/ ProjectNewton
    \/ ProjectEnd
    \/ RelaxUpdateValues
    \/ RelaxFlip
    \/ CheckFinal
    \/ RelaxCallback

---------------------------------------------------------------------------
(* odt.nonlinear_optimization_uniform *)

BfgsArgs ==
    [rule : {"bfgs"},
     boundary_step : {None},
     omega : {1},
     tol : {TolPos},
     max_num_steps : {0, 1, 2, Inf},
     implicit_surface : {None},
     callback : BOOLEAN,
     step_filename_format : BOOLEAN]

\* the vectors the solver can propose: one 2-D row per interior point
XChoices ==
    {[p \in is_interior_point(StarCells) |-> v] :
        v \in {<<3*U, 3*U>>, <<4*U, 3*U>>, <<4*U, 4*U>>, <<U, U>>, <<5*U, 5*U>>}}

\* X[mesh.is_interior_point]
InteriorOf(pts, cs) == [p \in is_interior_point(cs) |-> pts[p]]

\* the write without the interior mask: the rows of x broadcast over all points
WriteBroadcast(pts, cs, x) ==
    [p \in DOMAIN pts |-> x[CHOOSE q \in DOMAIN x : TRUE]]

\* mesh.points[mesh.is_interior_point] = x.reshape(-1, X.shape[1])
WriteInterior(pts, cs, x) ==
    [p \in DOMAIN pts |-> IF p \in is_interior_point(cs) THEN x[p] ELSE pts[p]]

\* lines 168-176: MeshTri(X, cells); the optional snapshot of step 0
OptSave0 ==
    /\ pc = "o_save0"
    /\ pc' = "o_callback0"
    /\ IF arg.step_filename_format THEN Log("save") ELSE UNCHANGED events
    /\ op' = "save"
    /\ UNCHANGED <<driver, arg, n, points, cells, geom, k, X, diff, is_final, dirty,
                   stale_read, delaunay, points0, prev_points, raw, cb_log>>

\* lines 230-235: flip_delaunay.step = 0; x0; the optional callback of step 0
OptCallback0 ==
    /\ pc = "o_callback0"
    /\ pc' = "o_solve"
    /\ k' = 0
    /\ X' = InteriorOf(points, cells)
    /\ IF arg.callback
       THEN cb_log' = Append(cb_log, 0) /\ Log("callback")
       ELSE UNCHANGED <<cb_log, events>>
    /\ op' = "callback"
    /\ UNCHANGED <<driver, arg, n, points, cells, geom, diff, is_final, dirty,
                   stale_read, delaunay, points0, prev_points, raw>>

\* lines 183-188: the solver evaluates f(x): mesh.points = points_new; energy(mesh)
\* reads mesh.cell_volumes; an AssertionError of energy ends the run
EvalF ==
    /\ pc = "o_solve"
    /\ \E x \in XChoices :
          /\ X' = x
          /\ WritePoints(WriteInterior(points, cells, x))
    /\ stale_read' = (stale_read \/ dirty')
    /\ pc' = IF energy_assert(points', cells, geom.vol, TRUE) THEN pc ELSE "raised"
    /\ op' = "f"
    /\ UNCHANGED <<driver, arg, n, cells, geom, k, diff, is_final,
                   points0, prev_points, raw, events, cb_log>>

\* lines 191-206: the solver evaluates jac(x): the write, mesh.update_values(), then
\* the reads of mesh.cell_circumcenters and mesh.cell_volumes
EvalJac ==
    /\ pc = "o_solve"
    /\ \E x \in XChoices :
          /\ X' = x
          /\ points' = WriteInterior(points, cells, x)
          /\ delaunay' = (delaunay /\ ~Changed(WriteInterior(points, cells, x)))
    /\ \E g \in Geoms : geom' = StoredGeom(g, points', cells)
    /\ dirty' = FALSE
    /\ op' = "jac"
    /\ UNCHANGED <<driver, arg, n, cells, pc, k, diff, is_final, stale_read,
                   points0, prev_points, raw, events, cb_log>>

\* lines 208-211: the solver ends an iteration and calls flip_delaunay(x):
\* flip_delaunay.step += 1 and the write
CbWrite ==
    /\ pc = "o_solve"
    /\ k < arg.max_num_steps
    /\ k < MaxK
    /\ pc' = "cb_update"
    /\ k' = k + 1
    /\ \E x \in XChoices :
          /\ X' = x
          /\ WritePoints(WriteInterior(points, cells, x))
    /\ events' = <<"write">>
    /\ op' = "write"
    /\ UNCHANGED <<driver, arg, n, cells, geom, diff, is_final, stale_read,
                   points0, prev_points, raw, cb_log>>

\* the step callback without its update_values()
CbUpdateSkipped ==
    /\ pc = "cb_update"
    /\ pc' = "cb_flip"
    /\ Log("update_values")
    /\ op' = "update_values"
    /\ UNCHANGED <<driver, arg, n, points, cells, geom, k, X, diff, is_final, dirty,
                   stale_read, delaunay, points0, prev_points, raw, cb_log>>

\* line 212: mesh.update_values()
CbUpdateValues ==
    /\ pc = "cb_update"
    /\ pc' = "cb_flip"
    /\ update_values
    /\ Log("update_values")
    /\ op' = "update_values"
    /\ UNCHANGED <<driver, arg, n, points, cells, k, X, diff, is_final,
                   stale_read, delaunay, points0, prev_points, raw, cb_log>>

\* line 213: mesh.flip_until_delaunay()
CbFlip ==
    /\ pc = "cb_flip"
    /\ pc' = "cb_save"
    /\ flip_until_delaunay
    /\ Log("flip_until_delaunay")
    /\ op' = "flip_until_delaunay"
    /\ UNCHANGED <<driver, arg, n, points, k, X, diff, is_final, dirty,
                   stale_read, points0, prev_points, raw, cb_log>>

\* lines 215-221: the optional snapshot of step flip_delaunay.step
CbSave ==
    /\ pc = "cb_save"
    /\ pc' = "cb_user"
    /\ IF arg.step_filename_format THEN Log("save") ELSE UNCHANGED events
    /\ op' = "save"
    /\ UNCHANGED <<driver, arg, n, points, cells, geom, k, X, diff, is_final, dirty,
                   stale_read, delaunay, points0, prev_points, raw, cb_log>>

\* lines 223-228: the optional callback of step flip_delaunay.step; return to the solver
CbUser ==
    /\ pc = "cb_user"
    /\ pc' = "o_solve"
    /\ IF arg.callback
       THEN cb_log' = Append(cb_log, k) /\ Log("callback")
       ELSE UNCHANGED <<cb_log, events>>
    /\ op' = "callback"
    /\ UNCHANGED <<driver, arg, n, points, cells, geom, k, X, diff, is_final, dirty,
                   stale_read, delaunay, points0, prev_points, raw>>

\* lines 237-257: minimize() returns out; mesh.points[...] = out.x
FinalWrite ==
    /\ pc = "o_solve"
    /\ pc' = "o_final_update"
    /\ \E x \in XChoices :
          /\ X' = x
          /\ WritePoints(WriteInterior(points, cells, x))
    /\ events' = <<"write">>
    /\ op' = "write"
    /\ UNCHANGED <<driver, arg, n, cells, geom, k, diff, is_final, stale_read,
                   points0, prev_points, raw, cb_log>>

\* line 258: mesh.update_values()
FinalUpdateValues ==
    /\ pc = "o_final_update"
    /\ pc' = "o_final_flip"
    /\ update_values
    /\ Log("update_values")
    /\ op' = "update_values"
    /\ UNCHANGED <<driver, arg, n, points, cells, k, X, diff, is_final,
                   stale_read, delaunay, points0, prev_points, raw, cb_log>>

\* lines 259-271: mesh.flip_until_delaunay(); return mesh.points, mesh.cells["points"]
FinalFlip ==
    /\ pc = "o_final_flip"
    /\ pc' = "done"
    /\ flip_until_delaunay
    /\ Log("flip_until_delaunay")
    /\ op' = "flip_until_delaunay"
    /\ UNCHANGED <<driver, arg, n, points, k, X, diff, is_final, dirty,
                   stale_read, points0, prev_points, raw, cb_log>>

BfgsNext ==
    \/ OptSave0
    \/ OptCallback0
    \/ EvalF
    \/ EvalJac
    \/ CbWrite
    \/ CbUpdateValues
    \/ CbFlip
    \/ CbSave
    \/ CbUser
    \/ FinalWrite
    \/ FinalUpdateValues
    \/ FinalFlip

---------------------------------------------------------------------------
(* The specification *)

\* MeshTri(points, cells): the mesh a driver is called with
InitMesh ==
    /\ n \in {5, 6}
    /\ points = InitPoints(n)
    /\ cells = StarCells
    /\ geom \in {StoredGeom(g, points, cells) : g \in Geoms}
    /\ dirty = FALSE
    /\ stale_read = FALSE
    /\ delaunay \in BOOLEAN
    /\ points0 = points
    /\ prev_points = points
    /\ raw = points
    /\ X = points
    /\ diff = ZeroField(n)
    /\ is_final = FALSE
    /\ k = 0
    /\ events = << >>
    /\ cb_log = << >>
    /\ op = "init"

Init ==
    /\ driver \in {"runner", "bfgs"}
    /\ arg \in (IF driver = "runner" THEN RunnerArgs ELSE BfgsArgs)
    /\ pc = (IF driver = "runner" THEN "r_save0" ELSE "o_save0")
    /\ InitMesh

Next == RunnerNext \/ BfgsNext

Spec == Init /\ [][Next]_vars

\* the interpreter always executes the next statement of the projection loop
FairSpec == Spec /\ WF_vars(ProjectNewton) /\ WF_vars(ProjectEnd)

\* the averaging aggregator's divisions are exact for every geometry of the model
ExactAverages ==
    \A g \in Geoms, cs \in Configs, p \in 0..5 :
        /\ WeightSum(cs, g.vol, p) # 0 =>
              /\ SumRow(cs, UniformCC(cs, g), g.vol, p)[1] % WeightSum(cs, g.vol, p) = 0
              /\ SumRow(cs, UniformCC(cs, g), g.vol, p)[2] % WeightSum(cs, g.vol, p) = 0
        /\ WeightSum(cs, NoWeights, p) # 0 =>
              /\ SumRow(cs, DensityCC(cs, g), NoWeights, p)[1] % WeightSum(cs, NoWeights, p) = 0
              /\ SumRow(cs, DensityCC(cs, g), NoWeights, p)[2] % WeightSum(cs, NoWeights, p) = 0

---------------------------------------------------------------------------
(* The claims *)

ODTRules == {"odt_uniform", "odt_dp"}

\* the squared length of the displacement row d is below the square of tol
Below(d, tol) == ~IsNaN(d) /\ Dot(d, d) < tol * tol

\* the stopping condition of the runner, on the displacement of iteration kk
StopCondition(kk) ==
    \/ \A p \in Pts(n) : Below(diff[p], arg.tol)
    \/ kk >= arg.max_num_steps

\* C1: with tol = 0 and a finite max_num_steps, runner returns k = max_num_steps.
C1_ExactlyMaxSteps ==
    (driver = "runner" /\ pc = "done" /\ arg.tol = 0 /\ arg.max_num_steps # Inf)
        => k = arg.max_num_steps

\* C2: runner returns only at an iteration whose displacement rows are all below
\* tol or whose number has reached max_num_steps, and it starts no further
\* iteration after such an iteration.
C2_StopsAtFirstFinal ==
    driver = "runner" =>
        /\ pc = "done" => StopCondition(k)
        /\ (pc = "r_rule" /\ k >= 1) => ~StopCondition(k)

C2_Witness ==
    /\ driver = "runner"
    /\ pc = "done"
    /\ arg.max_num_steps = Inf
    /\ arg.tol > 0
    /\ k = 2

\* the minimum inradius over the cells incident to p, in the mesh as stored
MinInradius(p) == Min({geom.inr[c] : c \in CellsOfPoint(cells, p)})

\* the displacement added to point p by the step of the current iteration
Added(p) == VSub(points[p], prev_points[p])

\* C3: right after the step, the displacement added to every point with incident
\* cells is at most half the minimum inradius of those cells (the inradii stored
\* before the step): 4 |d|^2 <= r^2.
C3_StepClamped ==
    (driver = "runner" /\ op = "step") =>
        \A p \in Pts(n) :
            CellsOfPoint(cells, p) # {} =>
                /\ ~IsNaN(Added(p))
                /\ Added(p) = diff[p]
                /\ 4 * Dot(Added(p), Added(p)) <= MinInradius(p) * MinInradius(p)

C3_Witness ==
    /\ driver = "runner"
    /\ op = "step"
    /\ arg.omega = 2
    /\ \E p \in Pts(n) :
          /\ CellsOfPoint(cells, p) # {}
          /\ Added(p) # VScale(arg.omega, VSub(X[p], prev_points[p]))
          /\ 4 * Dot(Added(p), Added(p)) = MinInradius(p) * MinInradius(p)

C5_BoundaryOnManifold ==
    (/\ driver = "runner"
     /\ arg.rule \in ODTRules
     /\ arg.boundary_step # None
     /\ op = "step")
        => \A p \in is_boundary_point(cells) : points[p] = boundary_step(raw[p])

\* C6: at the start and at the end of every runner iteration, and when runner
\* returns, flip_until_delaunay has run since the last change of the points.
C6_DelaunayAtIterationEnds ==
    (driver = "runner" /\ pc \in {"r_rule", "r_check", "r_callback", "done"})
        => delaunay

C6_Witness ==
    /\ driver = "runner"
    /\ pc = "r_rule"
    /\ k >= 1
    /\ cells = FanCells
    /\ points # points0

\* what a completed step callback has done, in order
CallbackEvents ==
    <<"write", "update_values", "flip_until_delaunay">>
        \o (IF arg.step_filename_format THEN <<"save">> ELSE << >>)
        \o (IF arg.callback THEN <<"callback">> ELSE << >>)

\* C7: in the BFGS driver, when the snapshot and the user callback of a solver
\* iteration run, x has been written to the interior points, update_values and then
\* flip_until_delaunay have run after that write, in this order; the user callback
\* has received 0 before the solve and then 1, 2, ..., one per solver iteration.
C7_CallbackOrder ==
    driver = "bfgs" =>
        /\ pc \in {"cb_save", "cb_user"} =>
              /\ InteriorOf(points, cells) = X
              /\ ~dirty
              /\ delaunay
              /\ SubSeq(events, 1, 3) = <<"write", "update_values", "flip_until_delaunay">>
        /\ (pc = "o_solve" /\ k >= 1) => events = CallbackEvents
        /\ arg.callback =>
              /\ \A i \in 1..Len(cb_log) : cb_log[i] = i - 1
              /\ pc \in {"o_solve", "o_final_update", "o_final_flip", "done"}
                    => Len(cb_log) = k + 1
        /\ ~arg.callback => cb_log = << >>

C7_Witness ==
    /\ driver = "bfgs"
    /\ pc = "o_solve"
    /\ k = 2
    /\ arg.callback
    /\ arg.step_filename_format
    /\ cb_log = <<0, 1, 2>>
    /\ points # points0

\* C8: no derived mesh quantity is read between a change of the points and the
\* next update_values().
C8_NoStaleRead == ~stale_read

\* C9: an invocation of get_new_points and an evaluation of f or jac leave the
\* points, the cells and the stored derived arrays as they were.
C9_RulesArePure ==
    [][op' \in {"get_new_points", "f", "jac"} => UNCHANGED <<points, cells, geom>>]_vars

\* C10: on a mesh with a point that has no incident cell, a run of an averaging
\* rule does not put the result of the division by the zero weight sum into the
\* points and does not return.
C10_ZeroWeightIsFatal ==
    (/\ driver = "runner"
     /\ arg.rule \in ODTRules
     /\ \E p \in Pts(n) : CellsOfPoint(cells, p) = {})
        => /\ \A p \in Pts(n) : ~IsNaN(points[p])
           /\ pc # "done"


\* the reference value and the weight the rule in use gives cell c
RuleReference(c) ==
    IF arg.rule = "odt_uniform" THEN UniformCC(cells, geom)[c] ELSE DensityCC(cells, geom)[c]

RuleWeight(c) == IF arg.rule = "odt_uniform" THEN geom.vol[c] ELSE 1

\* the number of vertex slots of cell c that hold point p
Multiplicity(c, p) == Cardinality({s \in 1..3 : cells[c][s] = p})

\* the sum, over the cells incident to p, of weight * coordinate i of the reference
WeightedSum(p, i) ==
    SumInt([c \in CellsOfPoint(cells, p) |->
               Multiplicity(c, p) * RuleWeight(c) * RuleReference(c)[i]])

\* the sum, over the cells incident to p, of the weight
TotalWeight(p) ==
    SumInt([c \in CellsOfPoint(cells, p) |-> Multiplicity(c, p) * RuleWeight(c)])

\* C11: right after get_new_points of an ODT rule, the averaged position of every
\* point with incident cells is the sum of weight * reference over its incident
\* cells divided by the sum of their weights (weight 1 when weights is omitted).
C11_WeightedAverage ==
    (driver = "runner" /\ arg.rule \in ODTRules /\ op = "get_new_points") =>
        \A p \in Pts(n) :
            CellsOfPoint(cells, p) # {} =>
                /\ ~IsNaN(raw[p])
                /\ TotalWeight(p) > 0
                /\ raw[p][1] * TotalWeight(p) = WeightedSum(p, 1)
                /\ raw[p][2] * TotalWeight(p) = WeightedSum(p, 2)

C11_Witness ==
    /\ driver = "runner"
    /\ arg.rule = "odt_uniform"
    /\ op = "get_new_points"
    /\ cells = FanCells
    /\ geom.vol = GeomSkew.vol
    /\ raw[4][1] * TotalWeight(4) = WeightedSum(4, 1)
    /\ raw[4][1] * Cardinality(CellsOfPoint(cells, 4))
          # SumInt([c \in CellsOfPoint(cells, 4) |-> RuleReference(c)[1]])


\* C12: in the BFGS driver the solver's vector has one row per interior point and
\* no other, and whatever f, jac, the step callback and the final write have
\* written, every point that is not an interior point is where the caller put it.
C12_OnlyInteriorWritten ==
    driver = "bfgs" =>
        /\ pc \notin {"o_save0", "o_callback0"} => DOMAIN X = is_interior_point(cells)
        /\ \A p \in Pts(n) \ is_interior_point(cells) : points[p] = points0[p]

C12_Witness ==
    /\ driver = "bfgs"
    /\ pc = "done"
    /\ k >= 1
    /\ cells = FanCells
    /\ DOMAIN X = {4}
    /\ points[4] # points0[4]
    /\ \A p \in is_boundary_point(cells) : points[p] = points0[p]


\* C13: whenever a runner iteration has applied its step and is at the projection,
\* the projection loop ends and the iteration reaches update_values.
C13_ProjectionEnds ==
    (driver = "runner" /\ pc = "r_project") ~> (pc = "r_update")


\* C14: no evaluation of energy() fails its assertion out >= val.
C14_EnergyNonNegative == pc # "raised"


\* the cells that have a boundary edge
TouchesBoundary == {c \in DOMAIN cells : CellEdges(cells[c]) \cap BoundaryEdges(cells) # {}}

\* C15: right after get_new_points of either ODT rule, the reference value used for
\* a cell is its barycenter if the cell has a boundary edge and its circumcenter
\* otherwise, and the two rules' boundary-cell tests select the same cells.
C15_BoundaryCellsUseBarycenter ==
    (driver = "runner" /\ arg.rule \in ODTRules /\ op = "get_new_points") =>
        /\ \A c \in DOMAIN cells :
              RuleReference(c) = IF c \in TouchesBoundary THEN geom.bc[c] ELSE geom.cc[c]
        /\ {c \in DOMAIN cells : is_boundary_cell(cells, c)} = boundary_cell_ids(cells)


\* C16: whenever runner has just called the user callback - at step 0 as at every
\* later step - flip_until_delaunay has run before it in the same phase, and no
\* point has changed since.
C16_CallbackAfterFlip ==
    (driver = "runner" /\ arg.callback /\ op = "callback") =>
        /\ \E i \in 1..Len(events) : events[i] = "flip_until_delaunay"
        /\ delaunay

=============================================================================
